---------------------------- MODULE Spec2Model ----------------------------
(***************************************************************************)
(* A model of the OCR text pipeline of src/main.py: the region classifier  *)
(* in extract_text_from_image, organize_into_sections, chunk_sections and  *)
(* the orchestrator process_pdf.                                           *)
(*                                                                         *)
(* Strings are sequences of one-character strings, so that str.split(),    *)
(* '+' and '\n'.join are computed character by character.  A confidence    *)
(* is an integer number of thousandths (0.95 is 950).                      *)
(***************************************************************************)
EXTENDS Integers, Sequences, FiniteSets, TLC

VARIABLES
    pc,                  \* the position of the function under execution
    ocr_result,          \* extract_text_from_image: what ocr.ocr does for the image
    regions,             \* extract_text_from_image: the value returned
    regions_list,        \* organize_into_sections: its argument
    region_idx,          \* organize_into_sections: index of the next region of the loop
    current_section,     \* organize_into_sections: the accumulator (None or a section)
    sections,            \* organize_into_sections: sections; chunk_sections: its argument
    num_pages,           \* chunk_sections: its argument; process_pdf: len(images)
    max_pages_per_chunk, \* chunk_sections: its argument
    section_idx,         \* chunk_sections: index of the next section of the loop
    current_chunk,       \* chunk_sections: sections not yet flushed
    current_pages,       \* chunk_sections: pages claimed by current_chunk
    pages_alias,         \* chunk_sections: index of the section whose pages set
                         \* current_pages refers to (0: a set of its own)
    sections_at_call,    \* history: the argument of chunk_sections as passed
    chunks,              \* chunk_sections: the chunk texts, in order
    chunk_members,       \* history: for each chunk, the section list it was rendered from
    pdf_path,            \* process_pdf: its argument, as the two facts validation reads
    images,              \* process_pdf: the rasterized pages (None before conversion)
    page_num,            \* process_pdf: the page the OCR loop handles next
    all_regions,         \* process_pdf: the accumulated tagged regions
    ocr_log,             \* history: what ocr.ocr did for each page, in call order
    convert_error,       \* history: what convert_from_path raised (None if nothing)
    call_log,            \* history: the calls process_pdf made after conversion, in order
    result               \* process_pdf: the value returned (None before it returns)

extVars   == <<ocr_result, regions>>
orgVars   == <<regions_list, region_idx, current_section>>
chunkVars == <<max_pages_per_chunk, section_idx, current_chunk, current_pages,
               pages_alias, sections_at_call>>
pipeVars  == <<pdf_path, images, page_num, all_regions, ocr_log, convert_error,
              call_log, result>>
vars == <<pc, extVars, orgVars, sections, num_pages, chunkVars, chunks,
          chunk_members, pipeVars>>

None == [none |-> TRUE]

--------------------------------------------------------------------------
(* Strings *)

NL == "\n"

IsSpace(c) == c \in {" ", "\t", "\n", "\r", "\f"}

\* str.split() with no argument: the maximal runs of non-whitespace characters.
RECURSIVE SplitFrom(_, _, _, _)
SplitFrom(text, i, word, acc) ==
    IF i > Len(text)
    THEN IF word = <<>> THEN acc ELSE Append(acc, word)
    ELSE IF IsSpace(text[i])
         THEN SplitFrom(text, i + 1, <<>>,
                        IF word = <<>> THEN acc ELSE Append(acc, word))
         ELSE SplitFrom(text, i + 1, Append(word, text[i]), acc)

Split(text) == SplitFrom(text, 1, <<>>, <<>>)

\* sep.join(strs)
RECURSIVE Join(_, _)
Join(sep, strs) ==
    IF strs = <<>> THEN <<>>
    ELSE IF Len(strs) = 1 THEN strs[1]
    ELSE strs[1] \o <<sep>> \o Join(sep, Tail(strs))

--------------------------------------------------------------------------
(* Module 2: extract_text_from_image, with the region classifier *)

TitleConfidence == 950      \* 0.95, in thousandths
TitleMaxWords == 10

\* A region is a title iff it is confident and short.
ClassifyLoose(text, confidence) ==
    IF confidence >= TitleConfidence /\ Len(Split(text)) <= TitleMaxWords
    THEN "title" ELSE "text"

Classify(text, confidence) ==
    IF confidence > TitleConfidence /\ Len(Split(text)) < TitleMaxWords
    THEN "title" ELSE "text"

\* One OCR line [bbox, (text, confidence)] becomes one region.
RegionOf(line) ==
    [type |-> Classify(line.text, line.confidence),
     text |-> line.text,
     bbox |-> line.bbox]

\* What ocr.ocr(image_np, cls=True) does: it raises, it returns nothing usable
\* (None, [] or [None]), or it returns the lines of the page.
ExtractTextFromImage(r) ==
    IF r.kind = "raise" THEN <<>>
    ELSE IF r.kind = "empty" THEN <<>>
    ELSE [i \in 1..Len(r.lines) |-> RegionOf(r.lines[i])]

--------------------------------------------------------------------------
(* organize_into_sections *)

UnnamedSection == <<"U","n","n","a","m","e","d"," ","S","e","c","t","i","o","n">>

\* region.get('page', 1)
RegionPage(region) == IF "page" \in DOMAIN region THEN region.page ELSE 1

\* lines 73-77: the section a title region opens
TitleSection(region) ==
    [title |-> region.text, text_blocks |-> <<>>, pages |-> {RegionPage(region)}]

\* lines 79-80: a text region joins the open section
TextAppendFront(cs, region) ==
    [title |-> cs.title,
     text_blocks |-> <<region.text>> \o cs.text_blocks,
     pages |-> cs.pages \cup {RegionPage(region)}]

TextAppendNoPage(cs, region) ==
    [title |-> cs.title,
     text_blocks |-> Append(cs.text_blocks, region.text),
     pages |-> cs.pages]

TextAppend(cs, region) ==
    [title |-> cs.title,
     text_blocks |-> Append(cs.text_blocks, region.text),
     pages |-> cs.pages \cup {RegionPage(region)}]

\* lines 82-86: the section a text region opens when none is open
UnnamedOpenEmpty(region) ==
    [title |-> UnnamedSection, text_blocks |-> <<>>, pages |-> {RegionPage(region)}]

UnnamedOpen(region) ==
    [title |-> UnnamedSection,
     text_blocks |-> <<region.text>>,
     pages |-> {RegionPage(region)}]

\* The loop body, on the accumulator [sections, current_section].
OrganizeStep(acc, region) ==
    IF region.type = "title"
    THEN [sections |-> IF acc.current_section # None
                       THEN Append(acc.sections, acc.current_section)
                       ELSE acc.sections,
          current_section |-> TitleSection(region)]
    ELSE IF region.type = "text" /\ acc.current_section # None
    THEN [sections |-> acc.sections,
          current_section |-> TextAppend(acc.current_section, region)]
    ELSE IF region.type = "text" /\ acc.current_section = None
    THEN [sections |-> acc.sections,
          current_section |-> UnnamedOpen(region)]
    ELSE acc

\* After the loop: the open section, if any, is appended.
OrganizeFinishForgets(acc) == acc.sections

OrganizeFinish(acc) ==
    IF acc.current_section # None
    THEN Append(acc.sections, acc.current_section)
    ELSE acc.sections

RECURSIVE OrganizeLoop(_, _)
OrganizeLoop(acc, rs) ==
    IF rs = <<>> THEN acc ELSE OrganizeLoop(OrganizeStep(acc, rs[1]), Tail(rs))

OrganizeIntoSections(rs) ==
    OrganizeFinish(OrganizeLoop([sections |-> <<>>, current_section |-> None], rs))

--------------------------------------------------------------------------
(* chunk_sections *)

DefaultMaxPagesPerChunk == 6

\* s['title'] + '\n' + '\n'.join(s['text_blocks'])
RenderSection(s) == s.title \o <<NL>> \o Join(NL, s.text_blocks)

\* '\n'.join([... for s in secs])
RenderChunk(secs) == Join(NL, [i \in 1..Len(secs) |-> RenderSection(secs[i])])

\* line 93: the whole document fits one chunk
FastPathStrict(n, maxp) == n < maxp

FastPath(n, maxp) == n <= maxp

\* line 105: the section does not fit the chunk under construction
MustFlushLate(new_pages, cur, maxp) == Cardinality(new_pages) > maxp + 1 /\ cur # <<>>

MustFlushEarly(new_pages, cur, maxp) == Cardinality(new_pages) >= maxp /\ cur # <<>>

MustFlush(new_pages, cur, maxp) == Cardinality(new_pages) > maxp /\ cur # <<>>

\* line 103: the argument after current_pages.union(section_pages), when
\* current_pages refers to the pages set of section alias of secs (to a set
\* of its own when alias is 0); set.union builds a new set and leaves its
\* operands alone, where set.update would write the set referred to
SectionsAfterUpdate(secs, alias, pages, section_pages) ==
    IF alias > 0
    THEN [secs EXCEPT ![alias].pages = pages \cup section_pages]
    ELSE secs

SectionsAfterUnion(secs, alias, pages, section_pages) == secs

\* The loop body of the general path, on the accumulator
\* [chunks, members, current_chunk, current_pages].
ChunkStepKeepsPages(acc, section, maxp) ==
    LET section_pages == section.pages
        new_pages == acc.current_pages \cup section_pages
    IN  IF MustFlush(new_pages, acc.current_chunk, maxp)
        THEN [chunks |-> Append(acc.chunks, RenderChunk(acc.current_chunk)),
              members |-> Append(acc.members, acc.current_chunk),
              current_chunk |-> <<section>>,
              current_pages |-> new_pages]
        ELSE [chunks |-> acc.chunks,
              members |-> acc.members,
              current_chunk |-> Append(acc.current_chunk, section),
              current_pages |-> new_pages]

ChunkStep(acc, section, maxp) ==
    LET section_pages == section.pages
        new_pages == acc.current_pages \cup section_pages
    IN  IF MustFlush(new_pages, acc.current_chunk, maxp)
        THEN [chunks |-> Append(acc.chunks, RenderChunk(acc.current_chunk)),
              members |-> Append(acc.members, acc.current_chunk),
              current_chunk |-> <<section>>,
              current_pages |-> section_pages]
        ELSE [chunks |-> acc.chunks,
              members |-> acc.members,
              current_chunk |-> Append(acc.current_chunk, section),
              current_pages |-> new_pages]

\* After the loop: a non-empty current_chunk is flushed.
ChunkFinishForgets(acc) == acc

ChunkFinishAlways(acc) ==
    [chunks |-> Append(acc.chunks, RenderChunk(acc.current_chunk)),
     members |-> Append(acc.members, acc.current_chunk),
     current_chunk |-> acc.current_chunk,
     current_pages |-> acc.current_pages]

ChunkFinish(acc) ==
    IF acc.current_chunk # <<>>
    THEN [chunks |-> Append(acc.chunks, RenderChunk(acc.current_chunk)),
          members |-> Append(acc.members, acc.current_chunk),
          current_chunk |-> acc.current_chunk,
          current_pages |-> acc.current_pages]
    ELSE acc

\* The fast path: one chunk, rendered from every section.
ChunkFast(secs) ==
    [chunks |-> <<RenderChunk(secs)>>,
     members |-> <<secs>>,
     current_chunk |-> <<>>,
     current_pages |-> {}]

ChunkStart == [chunks |-> <<>>, members |-> <<>>, current_chunk |-> <<>>,
               current_pages |-> {}]

RECURSIVE ChunkLoop(_, _, _)
ChunkLoop(acc, secs, maxp) ==
    IF secs = <<>> THEN acc
    ELSE ChunkLoop(ChunkStep(acc, secs[1], maxp), Tail(secs), maxp)

\* chunk_sections(sections, num_pages, max_pages_per_chunk), with the section
\* lists the chunks were rendered from.
ChunkSectionsRun(secs, n, maxp) ==
    IF FastPath(n, maxp) THEN ChunkFast(secs)
    ELSE ChunkFinish(ChunkLoop(ChunkStart, secs, maxp))

ChunkSections(secs, n, maxp) == ChunkSectionsRun(secs, n, maxp).chunks

--------------------------------------------------------------------------
(* The values a function's variables hold while another function is modelled *)

ExtIdle   == ocr_result = None /\ regions = <<>>
OrgIdle   == regions_list = <<>> /\ region_idx = 0 /\ current_section = None
ChunkIdle == /\ max_pages_per_chunk = 0 /\ section_idx = 0
             /\ current_chunk = <<>> /\ current_pages = {}
             /\ pages_alias = 0 /\ sections_at_call = <<>>
OutIdle   == sections = <<>> /\ num_pages = 0 /\ chunks = <<>> /\ chunk_members = <<>>
PipeIdle  == /\ pdf_path = None /\ images = None /\ page_num = 0
             /\ all_regions = <<>> /\ ocr_log = <<>> /\ convert_error = None
             /\ call_log = <<>> /\ result = None

--------------------------------------------------------------------------
(* extract_text_from_image on one image *)

MaxWords == 11

Word == <<"m", "g">>

Separators == {<<" ">>, <<" ", " ">>, <<"\t">>}

RECURSIVE Words(_, _)
Words(n, sep) ==
    IF n = 0 THEN <<>>
    ELSE IF n = 1 THEN Word
    ELSE Word \o sep \o Words(n - 1, sep)

\* n words, with optional leading and trailing whitespace
SampleText(n, sep, lead, trail) ==
    (IF lead THEN sep ELSE <<>>) \o Words(n, sep) \o (IF trail THEN sep ELSE <<>>)

SampleTexts ==
    {SampleText(n, sep, lead, trail) :
        n \in 0..MaxWords, sep \in Separators, lead \in BOOLEAN, trail \in BOOLEAN}

SampleConfidences == {0, 949, 950, 951, 1000}

Line(text, confidence) == [bbox |-> 0, text |-> text, confidence |-> confidence]

SampleLines == {Line(t, c) : t \in SampleTexts, c \in SampleConfidences}

\* lines at the two thresholds, used in results of two lines
EdgeLines ==
    {Line(SampleText(n, <<" ">>, FALSE, FALSE), c) : n \in {9, 10}, c \in {950, 951}}

OcrRaise == [kind |-> "raise"]
OcrEmpty == [kind |-> "empty"]
OcrLines(ls) == [kind |-> "lines", lines |-> ls]

SampleOcrResults ==
    {OcrRaise, OcrEmpty}
    \cup {OcrLines(<<l>>) : l \in SampleLines}
    \cup {OcrLines(<<l1, l2>>) : l1 \in EdgeLines, l2 \in EdgeLines}

ExtractInit ==
    /\ pc = "extract"
    /\ ocr_result \in SampleOcrResults
    /\ regions = <<>>
    /\ OrgIdle /\ ChunkIdle /\ OutIdle /\ PipeIdle

\* lines 45-47 and 62-64: no usable result, or the exception handler
ExtractNothing ==
    /\ pc = "extract"
    /\ ocr_result.kind \in {"raise", "empty"}
    /\ regions' = ExtractTextFromImage(ocr_result)
    /\ pc' = "extracted"
    /\ UNCHANGED <<ocr_result, orgVars, sections, num_pages, chunkVars, chunks,
                   chunk_members, pipeVars>>

\* lines 49-61: one region per line
ExtractRegions ==
    /\ pc = "extract"
    /\ ocr_result.kind = "lines"
    /\ regions' = ExtractTextFromImage(ocr_result)
    /\ pc' = "extracted"
    /\ UNCHANGED <<ocr_result, orgVars, sections, num_pages, chunkVars, chunks,
                   chunk_members, pipeVars>>

ExtractNext == ExtractNothing \/ ExtractRegions

--------------------------------------------------------------------------
(* organize_into_sections on one region sequence *)

MaxRegions == 4
MaxRegionPage == 2

RegionTexts == {<<"R", "x">>, <<"o", "d">>}

\* classified, page-tagged regions, as process_pdf builds them
SampleRegions ==
    {[type |-> ty, text |-> tx, bbox |-> 0, page |-> pg] :
        ty \in {"title", "text"}, tx \in RegionTexts, pg \in 1..MaxRegionPage}
    \cup {[type |-> "title", text |-> UnnamedSection, bbox |-> 0, page |-> pg] :
        pg \in 1..MaxRegionPage}

\* process_pdf appends the regions page by page
PageOrdered(rs) == \A i \in 1..(Len(rs) - 1) : rs[i].page <= rs[i + 1].page

SampleRegionLists ==
    UNION {{rs \in [1..n -> SampleRegions] : PageOrdered(rs)} : n \in 0..MaxRegions}

OrganizeInit ==
    /\ pc = "organize"
    /\ regions_list \in SampleRegionLists
    /\ region_idx = 1
    /\ current_section = None
    /\ sections = <<>>
    /\ num_pages = 0 /\ chunks = <<>> /\ chunk_members = <<>>
    /\ ExtIdle /\ ChunkIdle /\ PipeIdle

OrganizeAcc == [sections |-> sections, current_section |-> current_section]

\* one iteration of the loop of lines 69-86
OrganizeIterate ==
    /\ region_idx' = region_idx + 1
    /\ sections' = OrganizeStep(OrganizeAcc, regions_list[region_idx]).sections
    /\ current_section' =
           OrganizeStep(OrganizeAcc, regions_list[region_idx]).current_section
    /\ UNCHANGED <<pc, regions_list, extVars, num_pages, chunkVars, chunks,
                   chunk_members, pipeVars>>

\* lines 70-77
OrganizeTitle ==
    /\ pc = "organize"
    /\ region_idx <= Len(regions_list)
    /\ regions_list[region_idx].type = "title"
    /\ OrganizeIterate

\* lines 78-80
OrganizeTextOpen ==
    /\ pc = "organize"
    /\ region_idx <= Len(regions_list)
    /\ regions_list[region_idx].type = "text"
    /\ current_section # None
    /\ OrganizeIterate

\* lines 81-86
OrganizeTextUnnamed ==
    /\ pc = "organize"
    /\ region_idx <= Len(regions_list)
    /\ regions_list[region_idx].type = "text"
    /\ current_section = None
    /\ OrganizeIterate

\* lines 88-91
OrganizeReturn ==
    /\ pc = "organize"
    /\ region_idx > Len(regions_list)
    /\ sections' = OrganizeFinish(OrganizeAcc)
    /\ pc' = "organized"
    /\ UNCHANGED <<regions_list, region_idx, current_section, extVars, num_pages,
                   chunkVars, chunks, chunk_members, pipeVars>>

OrganizeNext ==
    OrganizeTitle \/ OrganizeTextOpen \/ OrganizeTextUnnamed \/ OrganizeReturn

--------------------------------------------------------------------------
(* chunk_sections on one section sequence *)

MaxSections == 3
MaxSectionPage == 2
MaxScenarioPages == 10

PageSets == (SUBSET (1..MaxSectionPage)) \ {{}}

BodyText == <<"o", "d">>
TitleText == <<"R", "x">>

\* sections of every page set
PagedSections ==
    {[title |-> TitleText, text_blocks |-> <<BodyText>>, pages |-> ps] : ps \in PageSets}

\* sections of every shape of text, each on one page
TextedSections ==
    {[title |-> tt[1], text_blocks |-> tt[2], pages |-> {pg}] :
        tt \in {<<TitleText, <<>> >>,
                <<TitleText, <<BodyText>> >>,
                <<UnnamedSection, <<BodyText, TitleText>> >>},
        pg \in 1..2}

\* section i spans exactly page i
OnePerPage(n) ==
    [i \in 1..n |-> [title |-> TitleText, text_blocks |-> <<BodyText>>, pages |-> {i}]]

SampleSectionLists ==
    UNION {[1..n -> PagedSections] \cup [1..n -> TextedSections] : n \in 0..MaxSections}

ChunkInputs ==
    {[sections |-> secs, num_pages |-> n, max_pages_per_chunk |-> m] :
        secs \in SampleSectionLists,
        n \in 0..(MaxSectionPage + 1),
        m \in 1..MaxSectionPage}
    \cup
    {[sections |-> OnePerPage(n), num_pages |-> n, max_pages_per_chunk |-> m] :
        n \in 1..MaxScenarioPages, m \in 1..MaxScenarioPages}

ChunkInit ==
    /\ pc = "chunk"
    /\ \E inp \in ChunkInputs :
          /\ sections = inp.sections
          /\ sections_at_call = inp.sections
          /\ num_pages = inp.num_pages
          /\ max_pages_per_chunk = inp.max_pages_per_chunk
    /\ section_idx = 1
    /\ current_chunk = <<>>
    /\ current_pages = {}
    /\ pages_alias = 0
    /\ chunks = <<>>
    /\ chunk_members = <<>>
    /\ ExtIdle /\ OrgIdle /\ PipeIdle

ChunkAcc == [chunks |-> chunks, members |-> chunk_members,
             current_chunk |-> current_chunk, current_pages |-> current_pages]

ChunkSet(acc) ==
    /\ chunks' = acc.chunks
    /\ chunk_members' = acc.members
    /\ current_chunk' = acc.current_chunk
    /\ current_pages' = acc.current_pages

\* lines 93-95
ChunkFastReturn ==
    /\ pc = "chunk"
    /\ FastPath(num_pages, max_pages_per_chunk)
    /\ ChunkSet(ChunkFast(sections))
    /\ pc' = "chunked"
    /\ UNCHANGED <<extVars, orgVars, sections, num_pages, max_pages_per_chunk,
                   section_idx, pages_alias, sections_at_call, pipeVars>>

\* one iteration of the loop of lines 101-112
ChunkIterate ==
    /\ ChunkSet(ChunkStep(ChunkAcc, sections[section_idx], max_pages_per_chunk))
    /\ sections' = SectionsAfterUnion(sections, pages_alias, current_pages,
                                      sections[section_idx].pages)
    /\ pages_alias' =
           IF MustFlush(current_pages \cup sections[section_idx].pages,
                        current_chunk, max_pages_per_chunk)
           THEN section_idx
           ELSE 0
    /\ section_idx' = section_idx + 1
    /\ UNCHANGED <<pc, extVars, orgVars, num_pages, max_pages_per_chunk,
                   sections_at_call, pipeVars>>

\* lines 105-109
ChunkFlush ==
    /\ pc = "chunk"
    /\ ~FastPath(num_pages, max_pages_per_chunk)
    /\ section_idx <= Len(sections)
    /\ MustFlush(current_pages \cup sections[section_idx].pages, current_chunk,
                 max_pages_per_chunk)
    /\ ChunkIterate

\* lines 110-112
ChunkAppend ==
    /\ pc = "chunk"
    /\ ~FastPath(num_pages, max_pages_per_chunk)
    /\ section_idx <= Len(sections)
    /\ ~MustFlush(current_pages \cup sections[section_idx].pages, current_chunk,
                  max_pages_per_chunk)
    /\ ChunkIterate

\* lines 114-118
ChunkReturn ==
    /\ pc = "chunk"
    /\ ~FastPath(num_pages, max_pages_per_chunk)
    /\ section_idx > Len(sections)
    /\ ChunkSet(ChunkFinish(ChunkAcc))
    /\ pc' = "chunked"
    /\ UNCHANGED <<extVars, orgVars, sections, num_pages, max_pages_per_chunk,
                   section_idx, pages_alias, sections_at_call, pipeVars>>

ChunkNext == ChunkFastReturn \/ ChunkFlush \/ ChunkAppend \/ ChunkReturn

--------------------------------------------------------------------------
(* process_pdf *)

MaxDocPages == 7

TitleLine == Line(TitleText, 990)
BodyLine == Line(BodyText, 900)

\* what ocr.ocr may do for one page
PageOcrResults ==
    {OcrRaise, OcrEmpty, OcrLines(<<TitleLine>>), OcrLines(<<BodyLine>>),
     OcrLines(<<TitleLine, BodyLine>>)}

\* what pdf2image.convert_from_path may raise
ConvertErrors == {"Unable to get page count.", "Syntax Error: Couldn't read xref table"}

\* an exception no code of the functions raises itself (MemoryError,
\* RecursionError, ...), which may still come up while one of them runs
UnexpectedFaults == {"MemoryError"}

\* an entry of call_log: the call returned, or it raised
Called(name) == [call |-> name, raised |-> FALSE]
Raised(name) == [call |-> name, raised |-> TRUE]

Images(n) == [pages |-> [i \in 1..n |-> "image"]]

\* line 41: the message of the ValueError raised for a rasterizer failure
ConvertFailureMessageFixed(e) == <<"Failed to convert PDF">>

ConvertFailureMessage(e) == <<"Failed to convert PDF: ", e>>

\* lines 126-130: the regions of one page, each tagged with the page number
TagFromZero(rs, page) ==
    [i \in 1..Len(rs) |->
        [type |-> rs[i].type, text |-> rs[i].text, bbox |-> rs[i].bbox,
         page |-> page - 1]]

Tag(rs, page) ==
    [i \in 1..Len(rs) |->
        [type |-> rs[i].type, text |-> rs[i].text, bbox |-> rs[i].bbox, page |-> page]]

\* lines 144-150
ErrorResult(message) == [status |-> "error", message |-> message, data |-> None]

\* lines 133-143
SuccessResult(n, cs) ==
    [status |-> "success",
     message |-> <<"Successfully processed ", n, " page(s)">>,
     data |-> [total_pages |-> n, chunks |-> cs, raw_text |-> Join(NL, cs)]]

ProcessInit ==
    /\ pc = "validate"
    /\ pdf_path \in [is_pdf : BOOLEAN, exists : BOOLEAN]
    /\ images = None
    /\ page_num = 0
    /\ all_regions = <<>>
    /\ ocr_log = <<>>
    /\ convert_error = None
    /\ call_log = <<>>
    /\ result = None
    /\ ExtIdle /\ OrgIdle /\ ChunkIdle /\ OutIdle

\* lines 31-32, caught at line 144
RejectExtension ==
    /\ pc = "validate"
    /\ ~pdf_path.is_pdf
    /\ result' = ErrorResult(<<"Input file must be a '.pdf' file.">>)
    /\ pc' = "returned"
    /\ UNCHANGED <<extVars, orgVars, sections, num_pages, chunkVars, chunks,
                   chunk_members, pdf_path, images, page_num, all_regions, ocr_log,
                   convert_error, call_log>>

\* lines 33-34, caught at line 144
RejectMissingFile ==
    /\ pc = "validate"
    /\ pdf_path.is_pdf
    /\ ~pdf_path.exists
    /\ result' = ErrorResult(<<"File ", "pdf_path", " does not exist.">>)
    /\ pc' = "returned"
    /\ UNCHANGED <<extVars, orgVars, sections, num_pages, chunkVars, chunks,
                   chunk_members, pdf_path, images, page_num, all_regions, ocr_log,
                   convert_error, call_log>>

\* lines 36-41, caught at line 144: the rasterizer raises
ConvertFails ==
    /\ pc = "validate"
    /\ pdf_path.is_pdf
    /\ pdf_path.exists
    /\ \E e \in ConvertErrors :
          /\ convert_error' = [raised |-> e]
          /\ result' = ErrorResult(ConvertFailureMessage(e))
    /\ pc' = "returned"
    /\ UNCHANGED <<extVars, orgVars, sections, num_pages, chunkVars, chunks,
                   chunk_members, pdf_path, images, page_num, all_regions, ocr_log,
                   call_log>>

\* lines 36-38 and 123-125: the rasterizer returns the pages
ConvertReturns ==
    /\ pc = "validate"
    /\ pdf_path.is_pdf
    /\ pdf_path.exists
    /\ \E n \in 0..MaxDocPages : images' = Images(n) /\ num_pages' = n
    /\ page_num' = 1
    /\ all_regions' = <<>>
    /\ pc' = "ocr"
    /\ UNCHANGED <<extVars, orgVars, sections, chunkVars, chunks, chunk_members,
                   pdf_path, ocr_log, convert_error, call_log, result>>

\* lines 126-130: one page of the loop
OcrPage ==
    /\ pc = "ocr"
    /\ page_num <= Len(images.pages)
    /\ \E r \in PageOcrResults :
          /\ ocr_log' = Append(ocr_log, r)
          /\ all_regions' = all_regions \o Tag(ExtractTextFromImage(r), page_num)
    /\ call_log' = Append(call_log, Called("ocr"))
    /\ page_num' = page_num + 1
    /\ UNCHANGED <<pc, extVars, orgVars, sections, num_pages, chunkVars, chunks,
                   chunk_members, pdf_path, images, convert_error, result>>

\* line 131
CallOrganizeEarly ==
    /\ pc = "ocr"
    /\ sections' = OrganizeIntoSections(all_regions)
    /\ call_log' = Append(call_log, Called("organize"))
    /\ pc' = "pack"
    /\ UNCHANGED <<extVars, orgVars, num_pages, chunkVars, chunks, chunk_members,
                   pdf_path, images, page_num, all_regions, ocr_log, convert_error,
                   result>>

CallOrganize ==
    /\ pc = "ocr"
    /\ page_num > Len(images.pages)
    /\ sections' = OrganizeIntoSections(all_regions)
    /\ call_log' = Append(call_log, Called("organize"))
    /\ pc' = "pack"
    /\ UNCHANGED <<extVars, orgVars, num_pages, chunkVars, chunks, chunk_members,
                   pdf_path, images, page_num, all_regions, ocr_log, convert_error,
                   result>>

\* line 131 raising, caught at line 144
OrganizeRaisesUncaught ==
    /\ pc = "ocr"
    /\ page_num > Len(images.pages)
    /\ call_log' = Append(call_log, Raised("organize"))
    /\ pc' = "propagated"
    /\ UNCHANGED <<extVars, orgVars, sections, num_pages, chunkVars, chunks,
                   chunk_members, pdf_path, images, page_num, all_regions, ocr_log,
                   convert_error, result>>

OrganizeRaises ==
    /\ pc = "ocr"
    /\ page_num > Len(images.pages)
    /\ \E e \in UnexpectedFaults :
          /\ call_log' = Append(call_log, Raised("organize"))
          /\ result' = ErrorResult(<<e>>)
    /\ pc' = "returned"
    /\ UNCHANGED <<extVars, orgVars, sections, num_pages, chunkVars, chunks,
                   chunk_members, pdf_path, images, page_num, all_regions, ocr_log,
                   convert_error>>

\* line 132
CallChunk ==
    /\ pc = "pack"
    /\ chunks' = ChunkSections(sections, num_pages, DefaultMaxPagesPerChunk)
    /\ chunk_members' =
           ChunkSectionsRun(sections, num_pages, DefaultMaxPagesPerChunk).members
    /\ call_log' = Append(call_log, Called("chunk"))
    /\ pc' = "assemble"
    /\ UNCHANGED <<extVars, orgVars, sections, num_pages, chunkVars, pdf_path, images,
                   page_num, all_regions, ocr_log, convert_error, result>>

\* line 132 raising, caught at line 144
ChunkRaises ==
    /\ pc = "pack"
    /\ \E e \in UnexpectedFaults :
          /\ call_log' = Append(call_log, Raised("chunk"))
          /\ result' = ErrorResult(<<e>>)
    /\ pc' = "returned"
    /\ UNCHANGED <<extVars, orgVars, sections, num_pages, chunkVars, chunks,
                   chunk_members, pdf_path, images, page_num, all_regions, ocr_log,
                   convert_error>>

\* lines 133-143
ReturnSuccess ==
    /\ pc = "assemble"
    /\ result' = SuccessResult(num_pages, chunks)
    /\ pc' = "returned"
    /\ UNCHANGED <<extVars, orgVars, sections, num_pages, chunkVars, chunks,
                   chunk_members, pdf_path, images, page_num, all_regions, ocr_log,
                   convert_error, call_log>>

ProcessNext ==
    \/ RejectExtension \/ RejectMissingFile \/ ConvertFails \/ ConvertReturns
    \/ OcrPage \/ OrganizeRaises \/ CallOrganize \/ ChunkRaises \/ CallChunk
    \/ ReturnSuccess

--------------------------------------------------------------------------
(* The program: a call of process_pdf, or of one of its functions alone *)

Init == ProcessInit \/ ExtractInit \/ OrganizeInit \/ ChunkInit

Next == ProcessNext \/ ExtractNext \/ OrganizeNext \/ ChunkNext

Spec == Init /\ [][Next]_vars

--------------------------------------------------------------------------
(* Properties of the region classifier *)

\* the words of a text: the positions where a run of non-whitespace starts
WordCount(text) ==
    Cardinality({i \in 1..Len(text) :
                    ~IsSpace(text[i]) /\ (i = 1 \/ IsSpace(text[i - 1]))})

\* C10: every line of the OCR result gets exactly one region, labelled 'title'
\* if and only if its confidence is strictly above 0.95 and it has strictly
\* fewer than 10 whitespace-delimited words, and 'text' otherwise.
C10_ClassificationRule ==
    (pc = "extracted" /\ ocr_result.kind = "lines") =>
        /\ Len(regions) = Len(ocr_result.lines)
        /\ \A i \in 1..Len(regions) :
              LET l == ocr_result.lines[i] IN
              /\ regions[i].text = l.text
              /\ regions[i].type \in {"title", "text"}
              /\ regions[i].type = "title" <=>
                     (l.confidence > 950 /\ WordCount(l.text) < 10)

\* a result holding a short line of confidence exactly 0.95 and a confident
\* line of exactly 10 words, both labelled 'text'
C10_Witness ==
    /\ pc = "extracted"
    /\ ocr_result.kind = "lines"
    /\ \E i, j \in 1..Len(regions) :
          /\ ocr_result.lines[i].confidence = 950
          /\ WordCount(ocr_result.lines[i].text) = 9
          /\ regions[i].type = "text"
          /\ ocr_result.lines[j].confidence = 951
          /\ WordCount(ocr_result.lines[j].text) = 10
          /\ regions[j].type = "text"

--------------------------------------------------------------------------
(* Properties of organize_into_sections *)

\* organize_into_sections has returned: called alone, or from process_pdf
Organized == pc \in {"organized", "pack"}

\* the argument of that call
OrganizeInput == IF pc = "organized" THEN regions_list ELSE all_regions

NoTitle(rs) == \A i \in 1..Len(rs) : rs[i].type # "title"

Texts(rs) == [i \in 1..Len(rs) |-> rs[i].text]

\* C3 as stated: a region sequence of any length without a title, the empty
\* one included, gives exactly one section, "Unnamed Section", holding all
\* the texts in order.
C3_UnnamedForEveryLength ==
    (Organized /\ NoTitle(OrganizeInput)) =>
        /\ Len(sections) = 1
        /\ sections[1].title = UnnamedSection
        /\ sections[1].text_blocks = Texts(OrganizeInput)

\* C3 amended: a non-empty region sequence without a title gives exactly one
\* section, "Unnamed Section", holding all the texts in order; the empty
\* sequence gives no section.
C3_UnnamedWhenNonEmpty ==
    (Organized /\ NoTitle(OrganizeInput)) =>
        IF OrganizeInput = <<>>
        THEN sections = <<>>
        ELSE /\ Len(sections) = 1
             /\ sections[1].title = UnnamedSection
             /\ sections[1].text_blocks = Texts(OrganizeInput)

C3_Witness ==
    /\ pc = "organized"
    /\ NoTitle(regions_list)
    /\ Len(regions_list) >= 3
    /\ Len(sections) = 1
    /\ Len(sections[1].text_blocks) = Len(regions_list)

\* the regions a section stands for: its title (unless the section is the
\* implicit one) and then its text blocks
SectionRegions(s, implicit) ==
    (IF implicit THEN <<>> ELSE <<[type |-> "title", text |-> s.title]>>)
    \o [i \in 1..Len(s.text_blocks) |-> [type |-> "text", text |-> s.text_blocks[i]]]

RECURSIVE FlattenSections(_, _)
FlattenSections(secs, implicit) ==
    IF secs = <<>> THEN <<>>
    ELSE SectionRegions(secs[1], implicit) \o FlattenSections(Tail(secs), FALSE)

\* only a leading text region opens the implicit section
StartsWithText(rs) == rs # <<>> /\ rs[1].type = "text"

\* C7: the output sections, flattened in order (title, then text blocks, the
\* implicit title left out), are exactly the input regions in input order:
\* nothing is dropped, duplicated or reordered.
C7_SectionsPartitionInput ==
    Organized =>
        FlattenSections(sections, StartsWithText(OrganizeInput))
            = [i \in 1..Len(OrganizeInput) |->
                   [type |-> OrganizeInput[i].type, text |-> OrganizeInput[i].text]]

C7_Witness ==
    /\ pc = "organized"
    /\ StartsWithText(regions_list)
    /\ Len(sections) = 2
    /\ sections[1].title = UnnamedSection
    /\ Len(sections[2].text_blocks) = 2
    /\ sections[2].text_blocks[1] # sections[2].text_blocks[2]

--------------------------------------------------------------------------
(* Properties of chunk_sections *)

\* chunk_sections has returned: called alone, or from process_pdf
Packed == pc \in {"chunked", "assemble"}

\* the max_pages_per_chunk of that call
Limit == IF pc = "chunked" THEN max_pages_per_chunk ELSE DefaultMaxPagesPerChunk

PagesOf(secs) == UNION {secs[i].pages : i \in 1..Len(secs)}

RECURSIVE Concat(_)
Concat(lists) == IF lists = <<>> THEN <<>> ELSE lists[1] \o Concat(Tail(lists))

\* C1: when the sections' pages lie within 1..num_pages and the limit is at
\* least 1, the sections of every chunk span at most max_pages_per_chunk
\* pages, unless the chunk is one single section that alone spans more.
C1_ChunkPageBound ==
    (/\ Packed
     /\ Limit >= 1
     /\ PagesOf(sections) \subseteq 1..num_pages) =>
        /\ Len(chunks) = Len(chunk_members)
        /\ \A k \in 1..Len(chunk_members) :
              \/ Cardinality(PagesOf(chunk_members[k])) <= Limit
              \/ /\ Len(chunk_members[k]) = 1
                 /\ Cardinality(chunk_members[k][1].pages) > Limit

\* a packing with a full chunk of several sections next to an oversized one
C1_Witness ==
    /\ pc = "chunked"
    /\ PagesOf(sections) \subseteq 1..num_pages
    /\ \E k, j \in 1..Len(chunk_members) :
          /\ Len(chunk_members[k]) >= 2
          /\ Cardinality(PagesOf(chunk_members[k])) = max_pages_per_chunk
          /\ Len(chunk_members[j]) = 1
          /\ Cardinality(chunk_members[j][1].pages) > max_pages_per_chunk

\* C8: the section lists of the chunks, concatenated in chunk order, are the
\* input sections in their order, and the chunk texts joined by newline are
\* the text of all the sections: no section is split, dropped, duplicated
\* or reordered.
C8_SectionsAtomic ==
    Packed =>
        /\ Concat(chunk_members) = sections
        /\ Len(chunks) = Len(chunk_members)
        /\ Join(NL, chunks) = RenderChunk(sections)

C8_Witness ==
    /\ pc = "chunked"
    /\ Len(chunks) >= 2
    /\ Len(sections) > Len(chunks)
    /\ \E i, j \in 1..Len(sections) : sections[i] # sections[j]

\* section i spans exactly page i, and there are more pages than the limit
OnePagePerSection ==
    /\ Packed
    /\ Len(sections) = num_pages
    /\ \A i \in 1..Len(sections) : sections[i].pages = {i}
    /\ num_pages > Limit
    /\ Limit >= 1

\* C9: with one section per page and more pages than the limit, chunk k
\* holds the sections of pages (k-1)*max+1 .. k*max, the last chunk holding
\* the remainder; 10 pages under a limit of 6 give 2 chunks, of pages 1..6
\* and 7..10.
C9_ConsecutiveFullChunks ==
    OnePagePerSection =>
        /\ Len(chunks) = Len(chunk_members)
        /\ Len(chunk_members) = (num_pages + Limit - 1) \div Limit
        /\ \A k \in 1..Len(chunk_members) :
              /\ PagesOf(chunk_members[k])
                     = { p \in 1..num_pages : (k - 1) * Limit < p /\ p <= k * Limit }
              /\ Len(chunk_members[k]) = Cardinality(PagesOf(chunk_members[k]))
              /\ k < Len(chunk_members) => Len(chunk_members[k]) = Limit
        /\ (num_pages = 10 /\ Limit = 6) =>
              /\ Len(chunks) = 2
              /\ PagesOf(chunk_members[1]) = 1..6 /\ Len(chunk_members[1]) = 6
              /\ PagesOf(chunk_members[2]) = 7..10 /\ Len(chunk_members[2]) = 4

C9_Witness ==
    /\ pc = "chunked"
    /\ OnePagePerSection
    /\ num_pages = 10
    /\ max_pages_per_chunk = 6
    /\ Len(chunks) = 2

--------------------------------------------------------------------------
(* Properties of process_pdf *)

Returned == pc = "returned"

\* no call of process_pdf raised an unexpected fault
Unfaulted == \A i \in 1..Len(call_log) : ~call_log[i].raised

\* the rasterizer returned the pages of the document
Rasterized == images # None

\* C2 as stated: when the rasterizer returns no page, process_pdf returns
\* status 'error' with data null, and no chunk is produced.
C2_EmptyDocumentIsAnError ==
    (Returned /\ Rasterized /\ images.pages = <<>>) =>
        /\ result.status = "error"
        /\ result.data = None
        /\ chunks = <<>>

\* C4: when num_pages <= max_pages_per_chunk, chunk_sections returns exactly
\* one chunk, made of every section in order; a document of n <= 6 pages
\* ends with status 'success', exactly one chunk and total_pages = n.
C4_SmallDocumentOneChunk ==
    /\ (Packed /\ num_pages <= Limit) =>
          /\ Len(chunks) = 1
          /\ chunk_members = <<sections>>
    /\ (Returned /\ Rasterized /\ Unfaulted /\ Len(images.pages) <= 6) =>
          /\ result.status = "success"
          /\ Len(result.data.chunks) = 1
          /\ result.data.chunks = chunks
          /\ chunk_members = <<sections>>
          /\ result.data.total_pages = Len(images.pages)

\* a document of exactly 6 pages with several sections
C4_Witness ==
    /\ Returned
    /\ Rasterized
    /\ Len(images.pages) = 6
    /\ Len(sections) >= 3
    /\ result.status = "success"
    /\ Len(result.data.chunks) = 1
    /\ result.data.total_pages = 6

RegionsOfPage(p) == SelectSeq(all_regions, LAMBDA r : r.page = p)

\* C5: whatever pages the OCR fails on, every page gets its OCR call and
\* process_pdf returns 'success'; a failing page contributes no region, the
\* accumulated regions are exactly the lines of the succeeding pages, and
\* total_pages counts every rasterized page.
C5_OcrFailuresAbsorbed ==
    (Returned /\ Rasterized /\ Unfaulted) =>
        /\ result.status = "success"
        /\ result.data.total_pages = Len(images.pages)
        /\ Len(ocr_log) = Len(images.pages)
        /\ \A i \in 1..Len(all_regions) : all_regions[i].page \in 1..Len(images.pages)
        /\ \A p \in 1..Len(images.pages) :
              IF ocr_log[p].kind = "lines"
              THEN Texts(RegionsOfPage(p)) = Texts(ocr_log[p].lines)
              ELSE RegionsOfPage(p) = <<>>

\* scenario C: the OCR fails on a page between two pages that succeed
C5_Witness ==
    /\ Returned
    /\ Rasterized
    /\ result.status = "success"
    /\ \E p \in 2..(Len(images.pages) - 1) :
          /\ ocr_log[p].kind = "raise"
          /\ ocr_log[p - 1].kind = "lines"
          /\ ocr_log[p + 1].kind = "lines"
          /\ RegionsOfPage(p) = <<>>
          /\ RegionsOfPage(p - 1) # <<>>
          /\ RegionsOfPage(p + 1) # <<>>

\* C6: when the rasterizer raises, process_pdf returns status 'error' with
\* data null and a message holding the reason raised; no OCR call was made
\* and no region, section or chunk was produced.
C6_RasterFailureIsAnError ==
    (Returned /\ convert_error # None) =>
        /\ result.status = "error"
        /\ result.data = None
        /\ \E i \in 1..Len(result.message) : result.message[i] = convert_error.raised
        /\ ocr_log = <<>>
        /\ all_regions = <<>>
        /\ sections = <<>>
        /\ chunks = <<>>

C6_Witness ==
    /\ Returned
    /\ convert_error # None
    /\ images = None
    /\ result.status = "error"

\* a call of process_pdf is modelled
ProcessCall == pdf_path # None

\* the strings of cs with a newline between each two of them
RECURSIVE NewlineSeparated(_)
NewlineSeparated(cs) ==
    IF Len(cs) = 0 THEN <<>>
    ELSE IF Len(cs) = 1 THEN cs[1]
    ELSE NewlineSeparated(SubSeq(cs, 1, Len(cs) - 1)) \o <<NL>> \o cs[Len(cs)]

\* C11: a call of process_pdf that has not returned has a step to take, and
\* one that has returned holds a structured result: status 'success' with
\* total_pages, chunks and raw_text (the chunks joined by newline), or status
\* 'error' with data null; an invalid path, a rasterizer failure and a fault
\* raised while organizing or chunking all end in the error result.
C11_AlwaysStructuredResult ==
    ProcessCall =>
        /\ ~Returned => (result = None /\ ENABLED ProcessNext)
        /\ Returned =>
              /\ result # None
              /\ result.status \in {"success", "error"}
              /\ Len(result.message) > 0
              /\ result.status = "success" =>
                    /\ result.data # None
                    /\ result.data.total_pages = Len(images.pages)
                    /\ result.data.chunks = chunks
                    /\ result.data.raw_text = NewlineSeparated(chunks)
              /\ result.status = "error" => result.data = None
              /\ (\/ ~pdf_path.is_pdf
                  \/ ~pdf_path.exists
                  \/ convert_error # None
                  \/ ~Unfaulted) => result.status = "error"

\* chunk_sections raised after the sections were built, and the caller got
\* the error result
C11_Witness ==
    /\ Returned
    /\ sections # <<>>
    /\ Len(call_log) > 0
    /\ call_log[Len(call_log)] = Raised("chunk")
    /\ result.status = "error"
    /\ result.data = None

--------------------------------------------------------------------------
(* Properties of the chunk text *)

\* the lines of a section list: for each section its title, then its text blocks
RECURSIVE FlatLines(_)
FlatLines(secs) ==
    IF secs = <<>> THEN <<>>
    ELSE <<secs[1].title>> \o secs[1].text_blocks \o FlatLines(Tail(secs))

\* C12 as stated: the text of every chunk is its sections' titles and text
\* blocks, one per line and nothing else, joined by newline, also when a
\* section has no text block.
C12_ChunkTextIsFlatLines ==
    Packed =>
        \A k \in 1..Len(chunks) :
            chunks[k] = NewlineSeparated(FlatLines(chunk_members[k]))

--------------------------------------------------------------------------
(* Properties of the general path of chunk_sections *)

\* the loop of the general path is running (chunk_sections called alone)
InChunkLoop == pc = "chunk" /\ ~(num_pages <= max_pages_per_chunk)

\* chunk_sections has returned from its general path
PackedGeneral == Packed /\ ~(num_pages <= Limit)

\* closing the chunk of section list closed was necessary: it could not
\* take the section the next chunk starts with
Necessary(closed, next, limit) ==
    /\ next # <<>>
    /\ Cardinality(PagesOf(closed) \cup next[1].pages) > limit

\* C13: in the general path a chunk is closed only when the next section
\* does not fit: the pages of each chunk together with those of the first
\* section of the chunk after it exceed max_pages_per_chunk; during the loop
\* current_pages is the page set of current_chunk, so a section that fits
\* is added to it.
C13_GreedyPacking ==
    /\ InChunkLoop =>
          /\ current_pages = PagesOf(current_chunk)
          /\ \A k \in 1..Len(chunk_members) :
                Necessary(chunk_members[k],
                          IF k < Len(chunk_members) THEN chunk_members[k + 1]
                          ELSE current_chunk,
                          max_pages_per_chunk)
    /\ PackedGeneral =>
          \A k \in 1..(Len(chunk_members) - 1) :
              Necessary(chunk_members[k], chunk_members[k + 1], Limit)

\* three chunks, the middle one of several sections
C13_Witness ==
    /\ pc = "chunked"
    /\ PackedGeneral
    /\ Len(chunk_members) = 3
    /\ Len(chunk_members[2]) >= 2
    /\ Necessary(chunk_members[1], chunk_members[2], Limit)
    /\ Necessary(chunk_members[2], chunk_members[3], Limit)

--------------------------------------------------------------------------
(* Properties of the sections organize_into_sections opens *)

\* positions of the title regions among the first n regions of rs
TitlesUpTo(rs, n) == {i \in 1..n : rs[i].type = "title"}

\* the section the region at position i of rs belongs to
SectionOf(rs, i) ==
    Cardinality(TitlesUpTo(rs, i)) + (IF StartsWithText(rs) THEN 1 ELSE 0)

\* the title at position i is followed by a title or by the end of rs
BareTitle(rs, i) ==
    /\ rs[i].type = "title"
    /\ (i = Len(rs) \/ rs[i + 1].type = "title")

Alternating(rs) ==
    /\ Len(rs) = 4
    /\ rs[1].type = "title" /\ rs[2].type = "text"
    /\ rs[3].type = "title" /\ rs[4].type = "text"

\* C14: organize_into_sections returns one section per title region, plus
\* one if the first region is a text region; a title followed by a title or
\* by the end of the input gives a section with empty text_blocks; the
\* input title, text, title, text gives 2 sections of 1 text block each.
C14_TitlesOpenSections ==
    Organized =>
        LET rs == OrganizeInput
        IN  /\ Len(sections) = SectionOf(rs, Len(rs))
            /\ \A i \in 1..Len(rs) :
                  BareTitle(rs, i) =>
                      /\ sections[SectionOf(rs, i)].title = rs[i].text
                      /\ sections[SectionOf(rs, i)].text_blocks = <<>>
            /\ Alternating(rs) =>
                  /\ Len(sections) = 2
                  /\ \A k \in 1..2 : Len(sections[k].text_blocks) = 1

\* text, title, title, text: the implicit section, a bare title, a title
\* with its text
C14_Witness ==
    /\ pc = "organized"
    /\ Len(regions_list) = 4
    /\ StartsWithText(regions_list)
    /\ BareTitle(regions_list, 2)
    /\ regions_list[3].type = "title" /\ regions_list[4].type = "text"
    /\ Len(sections) = 3
    /\ sections[2].text_blocks = <<>>
    /\ Len(sections[3].text_blocks) = 1

--------------------------------------------------------------------------
(* Properties of the pages sets organize_into_sections builds *)

\* the loop of organize_into_sections is running (called alone)
InOrganizeLoop == pc = "organize"

\* the sections that exist in the loop: the finalized ones, then the open one
Held ==
    sections \o (IF current_section # None THEN <<current_section>> ELSE <<>>)

\* page tags of the regions among the first n of rs that belong to section k
AssignedPages(rs, n, k) ==
    {RegionPage(rs[i]) : i \in {j \in 1..n : SectionOf(rs, j) = k}}

\* every section of secs has exactly the page tags of its regions among the
\* first n regions of rs, and at least one
PagesFromRegions(secs, rs, n) ==
    \A k \in 1..Len(secs) :
        /\ secs[k].pages # {}
        /\ secs[k].pages = AssignedPages(rs, n, k)

\* C15: after every iteration of the loop of organize_into_sections, and in
\* its output, the pages set of each section is non-empty and is exactly the
\* set of page tags of the regions (title and text) assigned to the section.
C15_PagesAreRegionPages ==
    /\ InOrganizeLoop => PagesFromRegions(Held, regions_list, region_idx - 1)
    /\ Organized => PagesFromRegions(sections, OrganizeInput, Len(OrganizeInput))

\* inside the loop: one section finalized, the open one spans both pages
C15_Witness ==
    /\ InOrganizeLoop
    /\ region_idx = 4
    /\ region_idx <= Len(regions_list)
    /\ Len(sections) = 1
    /\ current_section # None
    /\ current_section.pages = {1, 2}
    /\ Len(current_section.text_blocks) = 1
    /\ PagesFromRegions(Held, regions_list, 3)

--------------------------------------------------------------------------
(* Properties of the order of the steps of process_pdf *)

\* n OCR calls that returned
OcrCalls(n) == [i \in 1..n |-> Called("ocr")]

\* the regions of the first n pages of the OCR log: page by page, each
\* page's regions in emission order, carrying the number of their page
RECURSIVE PagewiseRegions(_, _)
PagewiseRegions(log, n) ==
    IF n = 0 THEN <<>>
    ELSE LET rs == ExtractTextFromImage(log[n])
         IN  PagewiseRegions(log, n - 1)
             \o [i \in 1..Len(rs) |->
                    [type |-> rs[i].type, text |-> rs[i].text, bbox |-> rs[i].bbox,
                     page |-> n]]

\* C16: process_pdf recognises the pages in the order 1..N, one OCR call per
\* page; each region carries the 1-indexed number of its page and the
\* accumulated regions are those of page 1, then those of page 2, and so on
\* (non-decreasing page tags); organize_into_sections and chunk_sections are
\* called only after the OCR call of page N, in this order, at most once
\* each, and exactly once each on a run that returns 'success'.
C16_PagesInOrderThenOrganizeThenChunk ==
    (ProcessCall /\ Rasterized) =>
        LET N == Len(images.pages)
            done == Len(ocr_log)
        IN  /\ done <= N
            /\ pc = "ocr" =>
                  /\ page_num = done + 1
                  /\ call_log = OcrCalls(done)
                  /\ all_regions = PagewiseRegions(ocr_log, done)
            /\ pc # "ocr" => done = N
            /\ PageOrdered(all_regions)
            /\ \A i \in 1..Len(all_regions) : all_regions[i].page \in 1..done
            /\ SubSeq(call_log, 1, done) = OcrCalls(done)
            /\ Len(call_log) <= N + 2
            /\ \A i \in 1..Len(call_log) :
                  /\ call_log[i].call = "ocr" <=> i <= N
                  /\ call_log[i].call = "organize" <=> i = N + 1
                  /\ call_log[i].call = "chunk" <=> i = N + 2
                  /\ call_log[i].raised => i = Len(call_log)
            /\ pc = "pack" => call_log = OcrCalls(N) \o <<Called("organize")>>
            /\ (pc = "assemble" \/ (Returned /\ result.status = "success")) =>
                  call_log = OcrCalls(N) \o <<Called("organize"), Called("chunk")>>

\* three pages, the second without a region, returned with 'success'
C16_Witness ==
    /\ Returned
    /\ Rasterized
    /\ result.status = "success"
    /\ Len(images.pages) = 3
    /\ call_log = OcrCalls(3) \o <<Called("organize"), Called("chunk")>>
    /\ RegionsOfPage(1) # <<>>
    /\ RegionsOfPage(2) = <<>>
    /\ Len(RegionsOfPage(3)) = 2
    /\ all_regions = RegionsOfPage(1) \o RegionsOfPage(3)

--------------------------------------------------------------------------
(* Properties of the chunks the general path emits *)

\* every chunk was rendered from at least one section and has text
NoEmptyChunk ==
    /\ Len(chunks) = Len(chunk_members)
    /\ \A k \in 1..Len(chunks) : chunk_members[k] # <<>> /\ chunks[k] # <<>>

\* C17: the general path of chunk_sections emits no empty chunk, during the
\* loop and in its output: every chunk holds at least one section, there are
\* at most as many chunks as sections, and an empty section sequence (every
\* page's OCR failed or returned nothing) gives zero chunks.
C17_NoEmptyChunk ==
    /\ InChunkLoop =>
          /\ NoEmptyChunk
          /\ Len(chunks) + (IF current_chunk # <<>> THEN 1 ELSE 0)
                 <= section_idx - 1
    /\ PackedGeneral =>
          /\ NoEmptyChunk
          /\ Len(chunks) <= Len(sections)
          /\ sections = <<>> => chunks = <<>>

\* seven pages, the OCR raised on some and found nothing on the others: no
\* section, and process_pdf returns zero chunks
C17_Witness ==
    /\ Returned
    /\ Rasterized
    /\ Len(images.pages) = 7
    /\ \A p \in 1..7 : ocr_log[p].kind \in {"raise", "empty"}
    /\ \E p \in 1..7 : ocr_log[p].kind = "raise"
    /\ \E p \in 1..7 : ocr_log[p].kind = "empty"
    /\ sections = <<>>
    /\ result.status = "success"
    /\ result.data.chunks = <<>>

--------------------------------------------------------------------------
(* The frame of chunk_sections *)

\* chunk_sections was called alone and is running or has returned
ChunkCall == pc \in {"chunk", "chunked"}

\* C18: chunk_sections leaves its argument as it was passed, at every step
\* and when it returns: the same sections in the same order, each with the
\* same title, text_blocks and pages, although current_pages refers to the
\* pages set of the section that opened the current chunk.
C18_InputUnchanged ==
    ChunkCall =>
        /\ sections = sections_at_call
        /\ pages_alias \in 0..Len(sections)
        /\ pages_alias > 0 => current_pages = sections[pages_alias].pages

\* returned from the general path; the union was computed while
\* current_pages referred to the pages set of the section that opens the
\* second chunk, with a section that brings a page of its own
C18_Witness ==
    /\ pc = "chunked"
    /\ PackedGeneral
    /\ Len(chunk_members) >= 2
    /\ Len(chunk_members[2]) >= 2
    /\ ~(chunk_members[2][2].pages \subseteq chunk_members[2][1].pages)
    /\ sections = sections_at_call

==========================================================================
